---------------------------- MODULE Spec2Model ----------------------------
(***************************************************************************)
(* A model of gdocstr: the Google-style docstring parser (parse.py) and    *)
(* the query classifier get_names (docstring.py).                          *)
(*                                                                         *)
(* A Python string is a sequence of one-character strings; a list of       *)
(* lines is a sequence of such sequences.  Indices named ln, _linenum and  *)
(* inc are 0-based as in the source; a sequence is read at index + 1.      *)
(***************************************************************************)
EXTENDS Integers, Sequences, FiniteSets, TLC

(***************************************************************************)
(* Characters and the regular-expression classes \s and \w                 *)
(***************************************************************************)
UpperChars ==
    {"A", "B", "C", "D", "E", "F", "G", "H", "I", "J", "K", "L", "M",
     "N", "O", "P", "Q", "R", "S", "T", "U", "V", "W", "X", "Y", "Z"}

LowerChars ==
    {"a", "b", "c", "d", "e", "f", "g", "h", "i", "j", "k", "l", "m",
     "n", "o", "p", "q", "r", "s", "t", "u", "v", "w", "x", "y", "z"}

DigitChars == {"0", "1", "2", "3", "4", "5", "6", "7", "8", "9"}

\* \s of the re module (and the characters str.strip() removes)
IsSpace(c) == c \in {" ", "\t", "\n", "\r", "\f"}

\* \w of the re module
IsWord(c) == c \in UpperChars \cup LowerChars \cup DigitChars \cup {"_"}

\* str.isupper() of a one-character string
IsUpper(c) == c \in UpperChars

(***************************************************************************)
(* The default configuration of GoogleDocString.__init__                   *)
(***************************************************************************)
ConfigHeaders ==
    << <<"A", "r", "g", "s">>,
       <<"A", "r", "g", "u", "m", "e", "n", "t", "s">>,
       <<"R", "e", "t", "u", "r", "n", "s">>,
       <<"Y", "i", "e", "l", "d", "s">>,
       <<"R", "a", "i", "s", "e", "s">>,
       <<"N", "o", "t", "e">>,
       <<"N", "o", "t", "e", "s">>,
       <<"E", "x", "a", "m", "p", "l", "e">>,
       <<"E", "x", "a", "m", "p", "l", "e", "s">>,
       <<"A", "t", "t", "r", "i", "b", "u", "t", "e", "s">>,
       <<"T", "o", "d", "o">> >>

ConfigIndent == 4

ConfigDelimiter == <<":">>

ConfigArgDelimiter == <<":", " ">>

(***************************************************************************)
(* String primitives                                                       *)
(***************************************************************************)
\* s[n:]
Drop(s, n) == IF n >= Len(s) THEN <<>> ELSE SubSeq(s, n + 1, Len(s))

\* whether pat occurs in s at (1-based) position p
HasAt(s, p, pat) ==
    /\ p >= 1
    /\ p + Len(pat) - 1 <= Len(s)
    /\ \A i \in 1..Len(pat) : s[p + i - 1] = pat[i]

\* the length of the run of \s characters of s that starts at position p
RECURSIVE SpaceRun(_, _)
SpaceRun(s, p) ==
    IF p <= Len(s) /\ IsSpace(s[p]) THEN 1 + SpaceRun(s, p + 1) ELSE 0

\* the length of the run of \w characters of s that starts at position p
RECURSIVE WordRun(_, _)
WordRun(s, p) ==
    IF p <= Len(s) /\ IsWord(s[p]) THEN 1 + WordRun(s, p + 1) ELSE 0

\* '\n'.join(ls)
RECURSIVE Join(_)
Join(ls) ==
    IF Len(ls) = 0 THEN <<>>
    ELSE IF Len(ls) = 1 THEN ls[1]
    ELSE ls[1] \o <<"\n">> \o Join(Tail(ls))

\* s.split(sep) for a one-character sep: the pieces between the places of
\* sep, the start and the end of s; never an empty list
Split(s, sep) ==
    LET cuts == {i \in 1..Len(s) : s[i] = sep}
        \* the place of the k-th sep; 0 and Len(s) + 1 stand at the two ends
        cut(k) == IF k = 0 THEN 0
                  ELSE IF k > Cardinality(cuts) THEN Len(s) + 1
                  ELSE CHOOSE i \in cuts :
                         Cardinality({j \in cuts : j < i}) = k - 1
    IN  [k \in 1..(Cardinality(cuts) + 1) |->
            SubSeq(s, cut(k - 1) + 1, cut(k) - 1)]

\* bool(s.strip()): s holds a character that is not white space
StripNonEmpty(s) == \E i \in 1..Len(s) : ~IsSpace(s[i])

Max(S) == CHOOSE x \in S : \A y \in S : y <= x

Min(S) == CHOOSE x \in S : \A y \in S : x <= y

(***************************************************************************)
(* The compiled patterns and their users                                   *)
(***************************************************************************)
\* re (^\s{indent,}) : the length of the leading white space when it is at
\* least the indent unit, else 0
\* _get_indent with an indent pattern that takes any leading white space,
\* ^\s{1,}, whatever the indent unit of the configuration
GetIndentAnyWidth(line) == SpaceRun(line, 1)

_get_indent(line) ==
    LET n == SpaceRun(line, 1)
    IN  IF n >= ConfigIndent THEN n ELSE 0

_is_indent(line) == _get_indent(line) > 0

\* re ^\s*(headers)delimiter\s* : the keyword that follows the leading white
\* space and is itself followed by the delimiter; '' when there is none
_get_header(line) ==
    LET p == 1 + SpaceRun(line, 1)
        ok == {k \in 1..Len(ConfigHeaders) :
                 HasAt(line, p, ConfigHeaders[k] \o ConfigDelimiter)}
    IN  IF ok = {} THEN <<>> ELSE ConfigHeaders[Min(ok)]

\* _is_header with a header pattern that lacks its leading \s*
IsHeaderAtMargin(line) ==
    \E k \in 1..Len(ConfigHeaders) :
        HasAt(line, 1, ConfigHeaders[k] \o ConfigDelimiter)

_is_header(line) == _get_header(line) # <<>>


\* re (\w*)\s*(\(.*\))?\s*<arg_delimiter>(.*) tried at position p, as the
\* backtracking matcher decides it: \w* and the white space after it are
\* taken whole; at a '(' the signature runs to the last ')' after which white
\* space and the delimiter follow; otherwise the delimiter must stand here.
\* The result is the match's three groups, or <<>> when p starts no match.
ArgMatchAt(line, p) ==
    LET w == p + WordRun(line, p)
        j == w + SpaceRun(line, w)
        field == SubSeq(line, p, w - 1)
        closers == {k \in (j + 1)..Len(line) :
                      /\ line[k] = ")"
                      /\ HasAt(line, k + 1 + SpaceRun(line, k + 1),
                               ConfigArgDelimiter)}
    IN  IF j <= Len(line) /\ line[j] = "(" /\ closers # {}
        THEN LET k == Max(closers)
                 d == k + 1 + SpaceRun(line, k + 1)
             IN  << <<field, SubSeq(line, j, k),
                      Drop(line, d + Len(ConfigArgDelimiter) - 1)>> >>
        ELSE IF HasAt(line, j, ConfigArgDelimiter)
        THEN << <<field, <<>>,
                  Drop(line, j + Len(ConfigArgDelimiter) - 1)>> >>
        ELSE <<>>

\* findall that takes the last match of the line, not the first
GetArgLast(line) ==
    LET starts == {p \in 1..Len(line) : ArgMatchAt(line, p) # <<>>}
    IN  IF starts = {} THEN <<>> ELSE ArgMatchAt(line, Max(starts))

\* self._re['arg'].findall(line), cut to its first element (the only one
\* the callers read): the match at the leftmost position that starts one
_get_arg(line) ==
    LET starts == {p \in 1..Len(line) : ArgMatchAt(line, p) # <<>>}
    IN  IF starts = {} THEN <<>> ELSE ArgMatchAt(line, Min(starts))

\* the next line after index ln that is not the empty string; '' past the end
RECURSIVE NextLineFrom(_, _)
NextLineFrom(lines, inc) ==
    IF inc = Len(lines) THEN <<>>
    ELSE IF lines[inc + 1] # <<>> THEN lines[inc + 1]
    ELSE NextLineFrom(lines, inc + 1)

\* _get_next_line without its skipping of empty lines
NextLineUnskipped(lines, ln) ==
    IF ln + 1 >= Len(lines) THEN <<>> ELSE lines[ln + 2]

_get_next_line(lines, ln) == NextLineFrom(lines, ln + 1)

\* _err_if_missing_indent raises SyntaxError
\* _err_if_missing_indent that asks for the next line to be indented by the
\* indent unit more than the header line is
MissingIndentRelative(lines, ln) ==
    SpaceRun(_get_next_line(lines, ln), 1)
        < SpaceRun(lines[ln + 1], 1) + ConfigIndent

MissingIndent(lines, ln) == ~_is_indent(_get_next_line(lines, ln))

\* _end_section without its test of section_text.strip()
EndSectionUnchecked(sections, section) == Append(sections, Join(section))

\* _end_section: the section list after closing the pending section
_end_section(sections, section) ==
    IF StripNonEmpty(Join(section)) THEN Append(sections, Join(section))
    ELSE sections


\* _parse_arglist without its while loop: the description is one line
NoDescriptionLoop(lines, n) == n

\* the while loop of _parse_arglist: the index of the last line taken into
\* the description, starting from the field's own line n
RECURSIVE LastDescriptionLine(_, _)
LastDescriptionLine(lines, n) ==
    IF _is_indent(_get_next_line(lines, n))
    THEN LastDescriptionLine(lines, n + 1)
    ELSE n

\* _parse_arglist that leaves the empty lines it passes out of the
\* description
ParseArglistNoBlanks(lines, n) ==
    LET arg_data == _get_arg(lines[n + 1])
        last == LastDescriptionLine(lines, n)
        NonEmpty(l) == l # <<>>
        description ==
            <<arg_data[1][3]>> \o
                SelectSeq(SubSeq(lines, n + 2, last + 1), NonEmpty)
    IN  IF arg_data = <<>> THEN <<>>
        ELSE << [field |-> arg_data[1][1],
                 signature |-> arg_data[1][2],
                 description |-> Join(description)],
                last >>

\* _parse_arglist(lines) at cursor n: <<>> (None) when the line is no field,
\* else the field's dictionary and the cursor it leaves in self._linenum
_parse_arglist(lines, n) ==
    LET arg_data == _get_arg(lines[n + 1])
        last == LastDescriptionLine(lines, n)
        description == <<arg_data[1][3]>> \o SubSeq(lines, n + 2, last + 1)
    IN  IF arg_data = <<>> THEN <<>>
        ELSE << [field |-> arg_data[1][1],
                 signature |-> arg_data[1][2],
                 description |-> Join(description)],
                last >>

\* get_names that takes every query of two or more segments for a method
GetNamesNoError(query) ==
    LET members == Split(query, ".")
    IN  IF Len(members) = 1
        THEN IF members[1] = <<>>
             THEN [classname |-> <<>>, funcname |-> <<>>, dtype |-> "module"]
             ELSE IF IsUpper(members[1][1])
             THEN [classname |-> query, funcname |-> <<>>, dtype |-> "class"]
             ELSE [classname |-> <<>>, funcname |-> query, dtype |-> "function"]
        ELSE [classname |-> members[1], funcname |-> members[2],
              dtype |-> "method"]

\* get_names(query): the tuple it returns, or the exception it raises
get_names(query) ==
    LET members == Split(query, ".")
    IN  IF Len(members) = 1
        THEN IF members[1] = <<>>
             THEN [classname |-> <<>>, funcname |-> <<>>, dtype |-> "module"]
             ELSE IF IsUpper(members[1][1])
             THEN [classname |-> query, funcname |-> <<>>, dtype |-> "class"]
             ELSE [classname |-> <<>>, funcname |-> query, dtype |-> "function"]
        ELSE IF Len(members) = 2
        THEN [classname |-> members[1], funcname |-> members[2],
              dtype |-> "method"]
        ELSE [classname |-> <<>>, funcname |-> <<>>, dtype |-> "ValueError"]

\* self.header of DocString.__init__: the empty dictionary
SelfHeader == [metadata |-> <<>>]

\* json.dumps(data, sort_keys=True, ...): every dictionary as its items in
\* key order
JsonDumps(data) ==
    [i \in 1..Len(data) |->
        IF data[i] = SelfHeader THEN <<>>
        ELSE << <<"args", data[i].args>>,
                <<"header", data[i].header>>,
                <<"text", data[i].text>> >>]

(***************************************************************************)
(* The inputs                                                              *)
(***************************************************************************)
MaxLines == 3

MaxParses == 2

MaxOps == 2

MaxOutLines == 2

MaxQuery == 4

\* n spaces
Sp(n) == [i \in 1..n |-> " "]

\* the lines the bounded docstrings are made of
Vocabulary ==
    { <<>>,
      Sp(2),
      Sp(6),
      <<"A", "r", "g", "s", ":">>,
      Sp(4) \o <<"T", "o", "d", "o", ":">>,
      <<"t">>,
      Sp(4) \o <<"t">>,
      <<"x", ":", " ", "a">>,
      Sp(4) \o <<"x", ":", " ", "a">>,
      Sp(8) \o <<"y", ":", " ", "b">>,
      Sp(8) \o <<"t">>,
      <<"x", " ", "(", "i", ")", ":", " ", "a">>,
      Sp(4) \o <<":", " ", "a">> }

\* the docstring of the end-to-end scenario
ExampleLines ==
    << <<"S", "u", "m", "m", "a", "r", "y", " ", "l", "i", "n", "e", ".">>,
       <<>>,
       <<"A", "r", "g", "s", ":">>,
       <<" ", " ", " ", " ", "x", " ", "(", "i", "n", "t", ")", ":", " ", "t", "h", "e", " ", "v", "a", "l", "u", "e", " ", "t", "o", " ", "u", "s", "e", ".">>,
       <<" ", " ", " ", " ", " ", " ", " ", " ", "C", "o", "n", "t", "i", "n", "u", "e", "d", " ", "d", "e", "s", "c", "r", "i", "p", "t", "i", "o", "n", ".">>,
       <<" ", " ", " ", " ", "y", ":", " ", "a", "n", "o", "t", "h", "e", "r", " ", "v", "a", "l", "u", "e", ".">>,
       <<>>,
       <<"R", "e", "t", "u", "r", "n", "s", ":">>,
       <<" ", " ", " ", " ", "b", "o", "o", "l", ":", " ", "w", "h", "e", "t", "h", "e", "r", " ", "i", "t", " ", "w", "o", "r", "k", "e", "d", ".">> >>

ExampleDoc == Join(ExampleLines)

Docstrings ==
    {ExampleDoc} \cup
    {Join(ls) : ls \in UNION {[1..n -> Vocabulary] : n \in 1..MaxLines}}

\* the docstrings the output methods are tried on
OutVocabulary ==
    { <<>>,
      <<"t">>,
      <<"A", "r", "g", "s", ":">>,
      Sp(4) \o <<"x", ":", " ", "a">> }

OutDocstrings ==
    {Join(ls) : ls \in UNION {[1..n -> OutVocabulary] : n \in 1..MaxOutLines}}

\* the values of choice that parser() is called with
Choices == {"Google", "google", "Numpy", "Sphinx", ""}

MaxPairLines == 2

PairVocabulary ==
    { <<"t">>,
      <<"A", "r", "g", "s", ":">>,
      Sp(4) \o <<"x", ":", " ", "a">> }

PairDocstrings ==
    {Join(ls) : ls \in UNION {[1..n -> PairVocabulary] : n \in 1..MaxPairLines}}

QueryChars == {"A", "a", ".", "_"}

Queries == UNION {[1..n -> QueryChars] : n \in 0..MaxQuery}

(***************************************************************************)
(* extract_sections and parse_section, one loop pass at a time             *)
(***************************************************************************)
\* the pass of the for loop of extract_sections without its elif branch: a
\* line with less indent than the threshold closes no section
ScanStepNoDrop(s, ls, i) ==
    LET line == ls[i + 1]
        lock == s.new_section /\ _is_indent(line)
        indent1 == IF lock THEN _get_indent(line) ELSE s._indent
        new1 == IF lock THEN FALSE ELSE s.new_section
    IN  IF _is_header(line) /\ MissingIndent(ls, i)
        THEN [s EXCEPT !._indent = indent1, !.raised = TRUE]
        ELSE IF _is_header(line)
             THEN [_section |-> <<Drop(line, 0)>>,
                   _sections |-> _end_section(s._sections, s._section),
                   _indent |-> 0,
                   new_section |-> TRUE,
                   raised |-> FALSE]
             ELSE [_section |-> Append(s._section, Drop(line, indent1)),
                   _sections |-> s._sections,
                   _indent |-> indent1,
                   new_section |-> new1,
                   raised |-> FALSE]

\* one pass of the for loop of extract_sections on line i (0-based) of ls;
\* s holds self._section, self._sections, self._indent, the local
\* new_section, and whether _err_if_missing_indent has raised
ScanStep(s, ls, i) ==
    LET line == ls[i + 1]
        current_indent == _get_indent(line)
        lock == s.new_section /\ _is_indent(line)
        indent1 == IF lock THEN current_indent ELSE s._indent
        new1 == IF lock THEN FALSE ELSE s.new_section
        drop == line # <<>> /\ current_indent < indent1
    IN  IF _is_header(line) /\ MissingIndent(ls, i)
        THEN [s EXCEPT !._indent = indent1, !.raised = TRUE]
        ELSE IF _is_header(line) \/ drop
             THEN [_section |-> <<Drop(line, 0)>>,
                   _sections |-> _end_section(s._sections, s._section),
                   _indent |-> 0,
                   new_section |-> IF _is_header(line) THEN TRUE ELSE new1,
                   raised |-> FALSE]
             ELSE [_section |-> Append(s._section, Drop(line, indent1)),
                   _sections |-> s._sections,
                   _indent |-> indent1,
                   new_section |-> new1,
                   raised |-> FALSE]

\* the for loop of extract_sections from line i on, and the closing of the
\* pending section after it
RECURSIVE ScanFrom(_, _, _)
ScanFrom(s, ls, i) ==
    IF s.raised
    THEN s
    ELSE IF i = Len(ls)
         THEN [s EXCEPT !._sections = _end_section(s._sections, s._section),
                        !._section = <<>>,
                        !._indent = 0]
         ELSE ScanFrom(ScanStep(s, ls, i), ls, i + 1)

\* extract_sections() of a parser whose _section, _sections and _indent are
\* those of p, on the docstring d
extract_sections(p, d) ==
    ScanFrom([_section |-> p._section, _sections |-> p._sections,
              _indent |-> p._indent, new_section |-> TRUE, raised |-> FALSE],
             Split(d, "\n"), 0)

\* the attributes DocString.__init__ gives a parser
NewParser == [_section |-> <<>>, _sections |-> <<>>, _indent |-> 0]

\* the pass of the while loop of parse_section with a cursor that
\* _parse_arglist does not move: the lines after a field line are gone
\* through again
SectionStepRescan(ls, c) ==
    LET arg_data == _parse_arglist(ls, c._linenum)
    IN  IF arg_data # <<>>
        THEN [_linenum |-> c._linenum + 1,
              text |-> c.text,
              args |-> Append(c.args, arg_data[1])]
        ELSE [_linenum |-> c._linenum + 1,
              text |-> Append(c.text, ls[c._linenum + 1]),
              args |-> c.args]

\* one pass of the while loop of parse_section; c holds self._linenum and
\* the locals text and args
SectionStep(ls, c) ==
    LET arg_data == _parse_arglist(ls, c._linenum)
    IN  IF arg_data # <<>>
        THEN [_linenum |-> arg_data[2] + 1,
              text |-> c.text,
              args |-> Append(c.args, arg_data[1])]
        ELSE [_linenum |-> c._linenum + 1,
              text |-> Append(c.text, ls[c._linenum + 1]),
              args |-> c.args]

RECURSIVE SectionFrom(_, _)
SectionFrom(ls, c) ==
    IF c._linenum < Len(ls) THEN SectionFrom(ls, SectionStep(ls, c)) ELSE c

\* parse_section(section)
parse_section(section) ==
    LET ls == Split(section, "\n")
        hd == _get_header(ls[1])
        c == SectionFrom(ls, [_linenum |-> IF hd # <<>> THEN 1 ELSE 0,
                              text |-> <<>>, args |-> <<>>])
    IN  [header |-> hd, text |-> Join(c.text), args |-> c.args]

(***************************************************************************)
(* Two parser objects                                                      *)
(***************************************************************************)
\* an attribute kept on the class, where every parser object reads what the
\* last one wrote
ClassAttr(own, other) == other

\* an attribute that __init__ sets on self: a parser object reads what it
\* has written itself, whatever another parser object has written
InstanceAttr(own, other) == own

\* parse() of a new parser of the docstring d, from its call to its end
ParseAlone(d) ==
    LET r == extract_sections(NewParser, d)
    IN  IF r.raised
        THEN [outcome |-> "SyntaxError", data |-> <<>>,
              _sections |-> r._sections]
        ELSE [outcome |-> "returned",
              data |-> [k \in 1..Len(r._sections) |->
                           parse_section(r._sections[k])],
              _sections |-> r._sections]

(***************************************************************************)
(* parser(obj, choice)                                                     *)
(***************************************************************************)
\* the keys of the dictionary parsers
Parsers == {"Google"}

\* parser(obj, choice): for a choice in parsers the parser made of obj is
\* returned; otherwise a NotImplementedError is made and dropped, and the
\* function ends without a return statement
parser(obj, choice) ==
    IF choice \in Parsers
    THEN [outcome |-> "returned", value |-> "GoogleDocString", docstring |-> obj]
    ELSE [outcome |-> "returned", value |-> "None", docstring |-> <<>>]

(***************************************************************************)
(* The state: one parser object, the lists it has handed out, the frame    *)
(* of the call in progress, and what the calls have returned               *)
(***************************************************************************)
VARIABLES
    docstring,    \* self.docstring
    _section,     \* self._section: the lines of the pending section
    _sections,    \* self._sections: the unparsed sections
    _indent,      \* self._indent
    _linenum,     \* self._linenum
    data,         \* self.data: the list object it names, an index of heap
    heap,         \* the list objects made by __init__ and parse()
    pc,           \* "idle", or the loop the call in progress is in
    lines,        \* the local lines of extract_sections / parse_section
    ln,           \* the loop index of extract_sections
    new_section,  \* the local new_section of extract_sections
    si,           \* the position of parse()'s loop over self._sections
    header,       \* the local header of parse_section
    text,         \* the local text of parse_section
    args,         \* the local args of parse_section
    calls,        \* the number of parse() calls made
    outcome,      \* how the last parse() ended
    returned,     \* the list object each parse() returned
    snaps,        \* what each returned list held when it was returned
    outputs,      \* what __json__, __str__ and __markdown__ returned
    query,        \* the argument of get_names
    names,        \* what the get_names calls returned or raised
    choice,       \* the choice argument of parser()
    made,         \* what the parser() calls returned or raised
    config,       \* the configuration dictionary the parsers were given
    peer,         \* a second parser and the frame of its call, not running
    active        \* which of the two parsers is the running one

vars ==
    <<docstring, _section, _sections, _indent, _linenum, data, heap, pc, lines,
      ln, new_section, si, header, text, args, calls, outcome, returned,
      snaps, outputs, query, names, choice, made, config, peer, active>>

others == <<choice, made, config, peer, active>>

frame == <<lines, ln, new_section, si, header, text, args>>

results == <<calls, outcome, returned, snaps, outputs>>

\* GoogleDocString(docstring): DocString.__init__
InitParser(d) ==
    /\ docstring = d
    /\ _section = <<>>
    /\ _sections = <<>>
    /\ _indent = 0
    /\ _linenum = 0
    /\ data = 1
    /\ heap = << <<>> >>
    /\ pc = "idle"
    /\ lines = <<>>
    /\ ln = 0
    /\ new_section = TRUE
    /\ si = 0
    /\ header = <<>>
    /\ text = <<>>
    /\ args = <<>>
    /\ calls = 0
    /\ outcome = "none"
    /\ returned = <<>>
    /\ snaps = <<>>
    /\ outputs = <<>>

\* the configuration GoogleDocString.__init__ makes when it is given none
DefaultConfig ==
    [headers |-> ConfigHeaders, indent |-> ConfigIndent,
     delimiter |-> ConfigDelimiter, arg_delimiter |-> ConfigArgDelimiter]

\* no second parser, no parser() call
InitOthers ==
    /\ choice = "Google"
    /\ made = <<>>
    /\ config = DefaultConfig
    /\ peer = <<>>
    /\ active = 1

Init ==
    /\ \E d \in Docstrings : InitParser(d)
    /\ query = <<>>
    /\ names = <<>>
    /\ InitOthers

(***************************************************************************)
(* parse()                                                                 *)
(***************************************************************************)
\* parse() is called: self.data = [] and extract_sections() starts
Parse ==
    /\ pc = "idle"
    /\ calls < MaxParses
    /\ calls' = calls + 1
    /\ data' = Len(heap) + 1
    /\ heap' = Append(heap, <<>>)
    /\ lines' = Split(docstring, "\n")
    /\ ln' = 0
    /\ new_section' = TRUE
    /\ outcome' = "running"
    /\ pc' = "extract"
    /\ UNCHANGED <<docstring, _section, _sections, _indent, _linenum, si,
                   header, text, args, returned, snaps, outputs, query, names,
                   others>>

\* one pass of the for loop of extract_sections, on line ln
ScanLine ==
    /\ pc = "extract"
    /\ ln < Len(lines)
    /\ LET s == ScanStep([_section |-> _section, _sections |-> _sections,
                          _indent |-> _indent, new_section |-> new_section,
                          raised |-> FALSE], lines, ln)
       IN  IF s.raised
           THEN \* _err_if_missing_indent raises; parse() is left
                /\ _indent' = s._indent
                /\ outcome' = "SyntaxError"
                /\ pc' = "idle"
                /\ lines' = <<>>
                /\ ln' = 0
                /\ new_section' = TRUE
                /\ UNCHANGED <<_section, _sections>>
           ELSE /\ _sections' = s._sections
                /\ _indent' = s._indent
                /\ _section' = s._section
                /\ new_section' = s.new_section
                /\ ln' = ln + 1
                /\ UNCHANGED <<outcome, pc, lines>>
    /\ UNCHANGED <<docstring, _linenum, data, heap, si, header, text, args,
                   calls, returned, snaps, outputs, query, names, others>>

\* the end of extract_sections: the pending section is closed
ScanEnd ==
    /\ pc = "extract"
    /\ ln = Len(lines)
    /\ _sections' = _end_section(_sections, _section)
    /\ _section' = <<>>
    /\ _indent' = 0
    /\ lines' = <<>>
    /\ ln' = 0
    /\ si' = 0
    /\ pc' = "sections"
    /\ UNCHANGED <<docstring, _linenum, data, heap, new_section, header, text,
                   args, results, query, names, others>>

\* parse() takes the next section; parse_section splits it and reads its
\* header
SectionBegin ==
    /\ pc = "sections"
    /\ si < Len(_sections)
    /\ LET ls == Split(_sections[si + 1], "\n")
       IN  /\ lines' = ls
           /\ header' = _get_header(ls[1])
           /\ _linenum' = IF _get_header(ls[1]) # <<>> THEN 1 ELSE 0
    /\ text' = <<>>
    /\ args' = <<>>
    /\ pc' = "section"
    /\ UNCHANGED <<docstring, _section, _sections, _indent, data, heap, ln,
                   new_section, si, results, query, names, others>>

\* one pass of the while loop of parse_section
SectionLine ==
    /\ pc = "section"
    /\ _linenum < Len(lines)
    /\ LET c == SectionStep(lines, [_linenum |-> _linenum, text |-> text,
                                    args |-> args])
       IN  /\ args' = c.args
           /\ text' = c.text
           /\ _linenum' = c._linenum
    /\ UNCHANGED <<docstring, _section, _sections, _indent, data, heap, pc,
                   lines, ln, new_section, si, header, results, query, names,
                   others>>

\* parse_section returns its dictionary and parse() appends it to self.data
SectionEnd ==
    /\ pc = "section"
    /\ _linenum >= Len(lines)
    /\ heap' = [heap EXCEPT ![data] =
                  Append(@, [header |-> header,
                             text |-> Join(text),
                             args |-> args])]
    /\ si' = si + 1
    /\ lines' = <<>>
    /\ header' = <<>>
    /\ text' = <<>>
    /\ args' = <<>>
    /\ pc' = "sections"
    /\ UNCHANGED <<docstring, _section, _sections, _indent, _linenum, data, ln,
                   new_section, results, query, names, others>>

\* parse() returns self.data
ParseReturn ==
    /\ pc = "sections"
    /\ si = Len(_sections)
    /\ outcome' = "returned"
    /\ returned' = Append(returned, data)
    /\ snaps' = Append(snaps, heap[data])
    /\ pc' = "idle"
    /\ UNCHANGED <<docstring, _section, _sections, _indent, _linenum, data,
                   heap, frame, calls, outputs, query, names, others>>

(***************************************************************************)
(* The output methods                                                      *)
(***************************************************************************)
\* __json__(): self.header is appended to the list self.data names
Json ==
    /\ pc = "idle"
    /\ Len(outputs) < MaxOps
    /\ heap' = [heap EXCEPT ![data] = Append(@, SelfHeader)]
    /\ outputs' = Append(outputs, <<"json", data, JsonDumps(heap'[data])>>)
    /\ UNCHANGED <<docstring, _section, _sections, _indent, _linenum, data, pc,
                   frame, calls, outcome, returned, snaps, query, names,
                   others>>

\* __str__()
Str ==
    /\ pc = "idle"
    /\ Len(outputs) < MaxOps
    /\ outputs' = Append(outputs, <<"str", data, docstring>>)
    /\ UNCHANGED <<docstring, _section, _sections, _indent, _linenum, data,
                   heap, pc, frame, calls, outcome, returned, snaps, query,
                   names, others>>

\* __markdown__(): the template is rendered from self.header and self.data
Markdown ==
    /\ pc = "idle"
    /\ Len(outputs) < MaxOps
    /\ outputs' = Append(outputs, <<"markdown", data, <<SelfHeader, heap[data]>> >>)
    /\ UNCHANGED <<docstring, _section, _sections, _indent, _linenum, data,
                   heap, pc, frame, calls, outcome, returned, snaps, query,
                   names, others>>

\* a parser and its parse() calls
Next ==
    \/ Parse
    \/ ScanLine
    \/ ScanEnd
    \/ SectionBegin
    \/ SectionLine
    \/ SectionEnd
    \/ ParseReturn

Spec == Init /\ [][Next]_vars

\* a parser, its parse() calls and its output methods
InitOut ==
    /\ \E d \in OutDocstrings : InitParser(d)
    /\ query = <<>>
    /\ names = <<>>
    /\ InitOthers

NextOut ==
    \/ Parse
    \/ ScanLine
    \/ ScanEnd
    \/ SectionBegin
    \/ SectionLine
    \/ SectionEnd
    \/ ParseReturn
    \/ Json
    \/ Str
    \/ Markdown

SpecOut == InitOut /\ [][NextOut]_vars

(***************************************************************************)
(* get_names, on its own                                                   *)
(***************************************************************************)
InitNames ==
    /\ InitParser(<<>>)
    /\ query \in Queries
    /\ names = <<>>
    /\ InitOthers

GetNames ==
    /\ names = <<>>
    /\ names' = <<get_names(query)>>
    /\ UNCHANGED <<docstring, _section, _sections, _indent, _linenum, data,
                   heap, pc, frame, results, query, others>>

NextNames == GetNames

SpecNames == InitNames /\ [][NextNames]_vars

(***************************************************************************)
(* parser(), on its own                                                    *)
(***************************************************************************)
\* docstring is the object handed to parser()
InitFactory ==
    /\ \E d \in OutDocstrings : InitParser(d)
    /\ query = <<>>
    /\ names = <<>>
    /\ choice \in Choices
    /\ made = <<>>
    /\ config = DefaultConfig
    /\ peer = <<>>
    /\ active = 1

CallParser ==
    /\ made = <<>>
    /\ made' = <<parser(docstring, choice)>>
    /\ UNCHANGED <<docstring, _section, _sections, _indent, _linenum, data,
                   heap, pc, frame, results, query, names, choice, config,
                   peer, active>>

NextFactory == CallParser

SpecFactory == InitFactory /\ [][NextFactory]_vars

(***************************************************************************)
(* Two parsers given the same configuration, each in a thread of its own   *)
(***************************************************************************)
\* the attributes of the running parser and the frame of its call
Running ==
    [docstring |-> docstring, _section |-> _section, _sections |-> _sections,
     _indent |-> _indent, _linenum |-> _linenum, data |-> data, pc |-> pc,
     lines |-> lines, ln |-> ln, new_section |-> new_section, si |-> si,
     header |-> header, text |-> text, args |-> args, calls |-> calls,
     outcome |-> outcome, returned |-> returned, snaps |-> snaps,
     outputs |-> outputs]

\* GoogleDocString(d, config), with h the list object its self.data names
Constructed(d, h) ==
    [docstring |-> d, _section |-> <<>>, _sections |-> <<>>, _indent |-> 0,
     _linenum |-> 0, data |-> h, pc |-> "idle", lines |-> <<>>, ln |-> 0,
     new_section |-> TRUE, si |-> 0, header |-> <<>>, text |-> <<>>,
     args |-> <<>>, calls |-> 0, outcome |-> "none", returned |-> <<>>,
     snaps |-> <<>>, outputs |-> <<>>]

\* two parsers are constructed with the same configuration; the first is the
\* running one
InitPair ==
    /\ \E d \in PairDocstrings :
          /\ docstring = d
          /\ _section = Constructed(d, 1)._section
          /\ _sections = Constructed(d, 1)._sections
          /\ _indent = Constructed(d, 1)._indent
          /\ _linenum = Constructed(d, 1)._linenum
          /\ data = 1
          /\ pc = Constructed(d, 1).pc
          /\ lines = Constructed(d, 1).lines
          /\ ln = Constructed(d, 1).ln
          /\ new_section = Constructed(d, 1).new_section
          /\ si = Constructed(d, 1).si
          /\ header = Constructed(d, 1).header
          /\ text = Constructed(d, 1).text
          /\ args = Constructed(d, 1).args
          /\ calls = Constructed(d, 1).calls
          /\ outcome = Constructed(d, 1).outcome
          /\ returned = Constructed(d, 1).returned
          /\ snaps = Constructed(d, 1).snaps
          /\ outputs = Constructed(d, 1).outputs
    /\ \E d \in PairDocstrings : peer = Constructed(d, 2)
    /\ heap = << <<>>, <<>> >>
    /\ query = <<>>
    /\ names = <<>>
    /\ choice = "Google"
    /\ made = <<>>
    /\ config = DefaultConfig
    /\ active = 1

\* the thread of the other parser is scheduled: its frame comes back, and
\* the attributes its parser has set on itself
Switch ==
    /\ peer' = Running
    /\ docstring' = InstanceAttr(peer.docstring, docstring)
    /\ _section' = InstanceAttr(peer._section, _section)
    /\ _sections' = InstanceAttr(peer._sections, _sections)
    /\ _indent' = InstanceAttr(peer._indent, _indent)
    /\ _linenum' = InstanceAttr(peer._linenum, _linenum)
    /\ data' = InstanceAttr(peer.data, data)
    /\ pc' = peer.pc
    /\ lines' = peer.lines
    /\ ln' = peer.ln
    /\ new_section' = peer.new_section
    /\ si' = peer.si
    /\ header' = peer.header
    /\ text' = peer.text
    /\ args' = peer.args
    /\ calls' = peer.calls
    /\ outcome' = peer.outcome
    /\ returned' = peer.returned
    /\ snaps' = peer.snaps
    /\ outputs' = peer.outputs
    /\ active' = 3 - active
    /\ UNCHANGED <<heap, query, names, choice, made, config>>

\* each of the two parsers is asked to parse once
ParseOnce == Parse /\ calls = 0

NextPair ==
    \/ ParseOnce
    \/ ScanLine
    \/ ScanEnd
    \/ SectionBegin
    \/ SectionLine
    \/ SectionEnd
    \/ ParseReturn
    \/ Switch

SpecPair == InitPair /\ [][NextPair]_vars

(***************************************************************************)
(* What the claims speak of, said of the docstring itself                  *)
(***************************************************************************)
DocLines == Split(docstring, "\n")

\* a line that, after leading white space, starts with a header keyword
\* followed at once by the header delimiter
HeaderLine(line) ==
    \E k \in 1..Len(ConfigHeaders) :
        HasAt(line, 1 + SpaceRun(line, 1), ConfigHeaders[k] \o ConfigDelimiter)

NoHeaderLine == \A i \in 1..Len(DocLines) : ~HeaderLine(DocLines[i])

\* the number of leading white-space characters of a line
Leading(line) == SpaceRun(line, 1)

\* the (1-based) places of the lines after place i that are not empty
NonEmptyAfter(ls, i) == {j \in (i + 1)..Len(ls) : ls[j] # <<>>}

\* the line at place i is followed by a non-empty line, and the first such
\* line has at least the indent unit of leading white space
IndentedBodyAfter(ls, i) ==
    /\ NonEmptyAfter(ls, i) # {}
    /\ Leading(ls[Min(NonEmptyAfter(ls, i))]) >= ConfigIndent

\* the first parse() of the parser has ended
FirstParseDone == pc = "idle" /\ calls = 1

\* some non-empty line after the first indented line of the docstring has
\* less indent than that line
IndentDrop ==
    LET indented == {i \in 1..Len(DocLines) : Leading(DocLines[i]) >= ConfigIndent}
    IN  /\ indented # {}
        /\ \E j \in (Min(indented) + 1)..Len(DocLines) :
              /\ DocLines[j] # <<>>
              /\ Leading(DocLines[j]) < Leading(DocLines[Min(indented)])

(***************************************************************************)
(* C1                                                                      *)
(***************************************************************************)
\* C1, as stated: a docstring without a header line is segmented, and
\* parsed, into exactly one section, whose header is the empty string.
C1_OneSection ==
    (FirstParseDone /\ NoHeaderLine) =>
        /\ outcome = "returned"
        /\ Len(_sections) = 1
        /\ Len(heap[data]) = 1
        /\ heap[data][1].header = <<>>

\* C1, amended: a docstring without a header line, parsed by a fresh parser,
\* gives only sections whose header is the empty string, and at most two of
\* them: none when the docstring is all white space, exactly one when it has
\* a character that is not white space and no indent drop.
C1_HeaderlessSections ==
    (FirstParseDone /\ NoHeaderLine) =>
        /\ outcome = "returned"
        /\ Len(heap[data]) = Len(_sections)
        /\ \A k \in 1..Len(heap[data]) : heap[data][k].header = <<>>
        /\ Len(_sections) <= 2
        /\ (~StripNonEmpty(docstring) => Len(_sections) = 0)
        /\ (StripNonEmpty(docstring) /\ ~IndentDrop => Len(_sections) = 1)

\* a headerless docstring of several lines has been parsed into one section
C1_Witness ==
    /\ FirstParseDone
    /\ NoHeaderLine
    /\ Len(DocLines) >= 2
    /\ Len(heap[data]) = 1
    /\ heap[data][1].header = <<>>

(***************************************************************************)
(* C2                                                                      *)
(***************************************************************************)
\* C2: parse() raises SyntaxError exactly when the docstring has a header
\* line that is not followed by an indented non-empty line (the next
\* non-empty line has fewer than 4 leading white-space characters, or there
\* is none); the scan passes only header lines whose body is indented.
C2_MissingIndentRaises ==
    /\ (pc = "idle" /\ calls >= 1) =>
          (outcome = "SyntaxError" <=>
              \E i \in 1..Len(DocLines) :
                  HeaderLine(DocLines[i]) /\ ~IndentedBodyAfter(DocLines, i))
    /\ pc = "extract" =>
          \A i \in 1..ln :
              HeaderLine(DocLines[i]) => IndentedBodyAfter(DocLines, i)

\* parse() has raised on a header that is followed only by empty lines
C2_Witness ==
    /\ pc = "idle"
    /\ outcome = "SyntaxError"
    /\ \E i \in 1..(Len(DocLines) - 1) :
          HeaderLine(DocLines[i]) /\ NonEmptyAfter(DocLines, i) = {}

(***************************************************************************)
(* C3                                                                      *)
(***************************************************************************)
\* C3, as stated: every field entry the field parser produces (every element
\* of the args list being built and of the args list of every parsed
\* section) has a non-empty name.
C3_FieldNamed ==
    /\ \A k \in 1..Len(args) : args[k].field # <<>>
    /\ \A k \in 1..Len(heap[data]) :
          \A a \in 1..Len(heap[data][k].args) :
              heap[data][k].args[a].field # <<>>

(***************************************************************************)
(* C4                                                                      *)
(***************************************************************************)
\* C4, as stated: in parse_section, once a line of the block has been put
\* into the narrative text, no later pass of the loop adds a field.
C4_FieldsFirst ==
    [][(pc = "section" /\ pc' = "section" /\ Len(text) > 0) => args' = args]_vars

(***************************************************************************)
(* C5                                                                      *)
(***************************************************************************)
\* a line that is empty or holds only white space
Blank(line) == \A i \in 1..Len(line) : IsSpace(line[i])

\* C5, as stated: the pass of the segmenter's loop over a line that is
\* empty or all white space closes no section, leaves the indent threshold
\* as it is, and appends one line to the pending section.
C5_BlankInert ==
    [][(pc = "extract" /\ ln < Len(lines) /\ Blank(lines[ln + 1])) =>
          /\ _sections' = _sections
          /\ _indent' = _indent
          /\ Len(_section') = Len(_section) + 1]_vars

(***************************************************************************)
(* C6                                                                      *)
(***************************************************************************)
\* 0-based places in a block, as the cursor counts them
LineAt(ls, n) == ls[n + 1]

\* the line at n matches the field pattern: the delimiter stands in it after
\* a name (possibly empty), white space and possibly a signature
FieldPattern(line) == \E p \in 1..Len(line) : ArgMatchAt(line, p) # <<>>

\* the place of the next non-empty line after n, or Len(ls) when there is
\* none
NextNonBlank(ls, n) ==
    Min({k \in (n + 1)..(Len(ls) - 1) : LineAt(ls, k) # <<>>} \cup {Len(ls)})

\* the place of the first non-empty line after n that is not indented, or
\* Len(ls)
ContinuationStop(ls, n) ==
    Min({k \in (n + 1)..(Len(ls) - 1) :
            LineAt(ls, k) # <<>> /\ Leading(LineAt(ls, k)) < ConfigIndent}
        \cup {Len(ls)})

\* the last place consumed by a field that starts at n: the last non-empty
\* line before the stop, n itself when there is none
ContinuationEnd(ls, n) ==
    Max({k \in (n + 1)..(ContinuationStop(ls, n) - 1) : LineAt(ls, k) # <<>>}
        \cup {n})

\* the places, from n on, of the field-pattern lines that no earlier field
\* consumes as a continuation
RECURSIVE FieldStarts(_, _)
FieldStarts(ls, n) ==
    IF n >= Len(ls) THEN {}
    ELSE IF FieldPattern(LineAt(ls, n))
    THEN {n} \cup FieldStarts(ls, ContinuationEnd(ls, n) + 1)
    ELSE FieldStarts(ls, n + 1)

\* the k-th element of a set of numbers, in increasing order
Nth(S, k) == CHOOSE x \in S : Cardinality({y \in S : y < x}) = k - 1

\* the place where parse_section starts in the block
BlockStart == IF HeaderLine(lines[1]) THEN 1 ELSE 0

SummaryText ==
    <<"S", "u", "m", "m", "a", "r", "y", " ", "l", "i", "n", "e",
        ".">>

SummaryTextAsParsed ==
    <<"S", "u", "m", "m", "a", "r", "y", " ", "l", "i", "n", "e", ".",
        "\n">>

XDescription ==
    <<"t", "h", "e", " ", "v", "a", "l", "u", "e", " ", "t", "o", " ",
        "u", "s", "e", ".", "\n", "C", "o", "n", "t", "i", "n", "u", "e",
        "d", " ", "d", "e", "s", "c", "r", "i", "p", "t", "i", "o", "n",
        ".">>

XDescriptionAsParsed ==
    <<"t", "h", "e", " ", "v", "a", "l", "u", "e", " ", "t", "o", " ",
        "u", "s", "e", ".", "\n", " ", " ", " ", " ", "C", "o", "n", "t",
        "i", "n", "u", "e", "d", " ", "d", "e", "s", "c", "r", "i", "p",
        "t", "i", "o", "n", ".">>

YDescription ==
    <<"a", "n", "o", "t", "h", "e", "r", " ", "v", "a", "l", "u", "e",
        ".">>

BoolDescription ==
    <<"w", "h", "e", "t", "h", "e", "r", " ", "i", "t", " ", "w", "o",
        "r", "k", "e", "d", ".">>

\* the three sections of the scenario, the text of the first one and the
\* description of x left open
ExampleSections(d, summary, xdescription) ==
    /\ Len(d) = 3
    /\ d[1].header = <<>>
    /\ d[1].text = summary
    /\ d[1].args = <<>>
    /\ d[2].header = <<"A", "r", "g", "s">>
    /\ d[2].args =
          << [field |-> <<"x">>, signature |-> <<"(", "i", "n", "t", ")">>,
              description |-> xdescription],
             [field |-> <<"y">>, signature |-> <<>>,
              description |-> YDescription] >>
    /\ d[3].header = <<"R", "e", "t", "u", "r", "n", "s">>
    /\ d[3].args =
          << [field |-> <<"b", "o", "o", "l">>, signature |-> <<>>,
              description |-> BoolDescription] >>

ExampleParsed == FirstParseDone /\ docstring = ExampleDoc

\* C7, as stated: the scenario's docstring is parsed into the sections '',
\* Args and Returns, the first with the text "Summary line." and x with the
\* description "the value to use.\nContinued description.".
C7_ExampleAsStated ==
    ExampleParsed =>
        /\ outcome = "returned"
        /\ ExampleSections(heap[data], SummaryText, XDescription)

\* C7, amended: the scenario's docstring is parsed into the sections '',
\* Args and Returns with the stated fields, the first with the text
\* "Summary line.\n" (the empty line before Args: belongs to it) and x with
\* the description "the value to use.\n    Continued description." (the
\* continuation line keeps the indent it has below the section's).
C7_ExampleAsParsed ==
    ExampleParsed =>
        /\ outcome = "returned"
        /\ ExampleSections(heap[data], SummaryTextAsParsed, XDescriptionAsParsed)

\* the scenario's docstring has been parsed
C7_Witness == ExampleParsed /\ outcome = "returned" /\ Len(heap[data]) = 3

(***************************************************************************)
(* C8                                                                      *)
(***************************************************************************)
\* the places of the dots of the query
Dots == {i \in 1..Len(query) : query[i] = "."}

\* C8: get_names classifies by the number of dot-separated segments: the
\* empty query is a module; one non-empty segment is a class named by the
\* query when its first character is upper case, else a function named by
\* the query; two segments are a method of the class named by the first and
\* the function named by the second; get_names raises ValueError exactly
\* for three or more segments.
C8_QueryKind ==
    \A k \in 1..Len(names) :
        LET r == names[k]
        IN  /\ r.dtype = "ValueError" <=> Cardinality(Dots) >= 2
            /\ (Cardinality(Dots) = 0 /\ query = <<>>) =>
                  r.dtype = "module"
            /\ (Cardinality(Dots) = 0 /\ query # <<>> /\ query[1] \in UpperChars) =>
                  r.dtype = "class" /\ r.classname = query
            /\ (Cardinality(Dots) = 0 /\ query # <<>> /\ query[1] \notin UpperChars) =>
                  r.dtype = "function" /\ r.funcname = query
            /\ Cardinality(Dots) = 1 =>
                  LET d == CHOOSE i \in Dots : TRUE
                  IN  /\ r.dtype = "method"
                      /\ r.classname = SubSeq(query, 1, d - 1)
                      /\ r.funcname = SubSeq(query, d + 1, Len(query))

\* get_names has raised on a query of three segments
C8_Witness ==
    /\ Len(names) = 1
    /\ names[1].dtype = "ValueError"
    /\ Cardinality(Dots) = 2

(***************************************************************************)
(* C9                                                                      *)
(***************************************************************************)
\* C9, as stated: every parse() of a parser returns what its first parse()
\* returned.
C9_SameOnEveryParse == \A i \in 1..Len(snaps) : snaps[i] = snaps[1]

(***************************************************************************)
(* C10                                                                     *)
(***************************************************************************)
\* C10, as stated: a list that parse() has returned keeps the content it
\* was returned with, whatever is called on the parser afterwards, and two
\* __json__ calls in a row on the same parsed data serialize the same
\* content.
C10_ReturnedUntouched ==
    /\ \A i \in 1..Len(returned) : heap[returned[i]] = snaps[i]
    /\ \A k \in 1..(Len(outputs) - 1) :
          (/\ outputs[k][1] = "json"
           /\ outputs[k + 1][1] = "json"
           /\ outputs[k][2] = outputs[k + 1][2]) =>
              outputs[k][3] = outputs[k + 1][3]

(***************************************************************************)
(* C11                                                                     *)
(***************************************************************************)
\* the number of lines of ls that hold a character other than white space
NonBlankLines(ls) == Cardinality({i \in 1..Len(ls) : ~Blank(ls[i])})

\* the number of header lines of the docstring
HeaderLines == Cardinality({i \in 1..Len(DocLines) : HeaderLine(DocLines[i])})

\* the lines of the k-th block the segmenter has emitted
BlockLines(k) == Split(_sections[k], "\n")

\* the lines of the k-th block that parse_section reads as content: all of
\* them but the first when that one is a header
ContentLines(k) ==
    IF _get_header(BlockLines(k)[1]) # <<>>
    THEN Drop(BlockLines(k), 1)
    ELSE BlockLines(k)

RECURSIVE NonBlankInBlocks(_)
NonBlankInBlocks(k) ==
    IF k = 0 THEN 0 ELSE NonBlankLines(BlockLines(k)) + NonBlankInBlocks(k - 1)

RECURSIVE NonBlankInContents(_)
NonBlankInContents(k) ==
    IF k = 0 THEN 0
    ELSE NonBlankLines(ContentLines(k)) + NonBlankInContents(k - 1)

\* C11, as stated: when the first parse() of a parser has returned, the
\* blocks the segmenter has emitted hold together at most as many non-blank
\* lines as the docstring has non-blank lines that are not header lines.
C11_BlocksWithoutHeaders ==
    (FirstParseDone /\ outcome = "returned") =>
        NonBlankInBlocks(Len(_sections)) <= NonBlankLines(DocLines) - HeaderLines

\* C11, amended: when the first parse() of a parser has returned, every
\* header line of the docstring is the first line of a block, and the blocks
\* without the first lines that are headers (what parse_section reads as
\* content) hold together at most as many non-blank lines as the docstring
\* has non-blank lines that are not header lines.
C11_ContentWithoutHeaders ==
    (FirstParseDone /\ outcome = "returned") =>
        /\ NonBlankInContents(Len(_sections))
              <= NonBlankLines(DocLines) - HeaderLines
        /\ \A k \in 1..Len(_sections) :
              \A i \in 2..Len(BlockLines(k)) : ~HeaderLine(BlockLines(k)[i])
        /\ HeaderLines =
              Cardinality({k \in 1..Len(_sections) : HeaderLine(BlockLines(k)[1])})

\* a docstring with a header line has been parsed, and the content of its
\* blocks has just as many non-blank lines as the docstring has outside its
\* header lines
C11_Witness ==
    /\ FirstParseDone
    /\ outcome = "returned"
    /\ HeaderLines > 0
    /\ NonBlankLines(DocLines) > HeaderLines
    /\ NonBlankInContents(Len(_sections)) = NonBlankLines(DocLines) - HeaderLines

(***************************************************************************)
(* C12                                                                     *)
(***************************************************************************)
\* the segmenter of a new parser, run on the text of a block
Resegment(block) == extract_sections(NewParser, block)

\* the block has no header line and no line with the indent unit of leading
\* white space
FlatBlock(block) ==
    \A i \in 1..Len(Split(block, "\n")) :
        /\ ~HeaderLine(Split(block, "\n")[i])
        /\ Leading(Split(block, "\n")[i]) < ConfigIndent

\* C12, as stated: the segmenter of a new parser, run on the text of any
\* block the first parse() has emitted, raises no error and yields exactly
\* one block, equal to the block it was run on.
C12_Idempotent ==
    (FirstParseDone /\ outcome = "returned") =>
        \A k \in 1..Len(_sections) :
            /\ ~Resegment(_sections[k]).raised
            /\ Resegment(_sections[k])._sections = <<_sections[k]>>

\* C12, amended: the segmenter of a new parser, run on the text of a block
\* that the first parse() has emitted (returning or raising), raises
\* no error and yields exactly that block if and only if the block has no
\* header line and no indented line.
C12_IdempotentOnFlatBlocks ==
    FirstParseDone =>
        \A k \in 1..Len(_sections) :
            FlatBlock(_sections[k]) <=>
                /\ ~Resegment(_sections[k]).raised
                /\ Resegment(_sections[k])._sections = <<_sections[k]>>

\* the first parse() has emitted a block of several lines without header and
\* indented line, which the segmenter yields again, and a block that the
\* segmenter does not yield again
C12_Witness ==
    /\ FirstParseDone
    /\ outcome = "returned"
    /\ \E k \in 1..Len(_sections) :
          /\ FlatBlock(_sections[k])
          /\ Len(Split(_sections[k], "\n")) > 1
          /\ Resegment(_sections[k])._sections = <<_sections[k]>>
    /\ \E k \in 1..Len(_sections) : ~FlatBlock(_sections[k])

(***************************************************************************)
(* C13                                                                     *)
(***************************************************************************)
\* C13, as stated: a parser() call with a choice that is not a key of
\* parsers raises NotImplementedError, and a call with a choice that is one
\* returns a parser of the object it was given.
C13_UnsupportedRaises ==
    made # <<>> =>
        IF choice \in Parsers
        THEN /\ made[1].outcome = "returned"
             /\ made[1].value = "GoogleDocString"
             /\ made[1].docstring = docstring
        ELSE made[1].outcome = "NotImplementedError"

(***************************************************************************)
(* C14                                                                     *)
(***************************************************************************)
\* C14, as stated: the parser is given no header metadata, so __json__ and
\* __markdown__ produce no document; in particular none whose header
\* metadata is the empty mapping.
C14_NoFabricatedHeader ==
    \A k \in 1..Len(outputs) :
        /\ outputs[k][1] # "json"
        /\ outputs[k][1] # "markdown"

(***************************************************************************)
(* C15                                                                     *)
(***************************************************************************)
\* the attributes and the frame of parser i, and the list its data names
InstanceState(i) ==
    IF active = i THEN <<Running, heap[data]>> ELSE <<peer, heap[peer.data]>>

\* what a parser whose parse() has ended holds
ResultOf(r) ==
    [outcome |-> r.outcome, data |-> heap[r.data], _sections |-> r._sections]

\* both parsers have what parse() gives on their docstring alone, whenever
\* their parse() has ended, and the configuration is as it was given
C15_AsAlone ==
    /\ config = DefaultConfig
    /\ (pc = "idle" /\ calls = 1) => ResultOf(Running) = ParseAlone(docstring)
    /\ (peer.pc = "idle" /\ peer.calls = 1) =>
          ResultOf(peer) = ParseAlone(peer.docstring)

\* a step leaves the configuration and one of the two parsers as they were
C15_Frame ==
    /\ config' = config
    /\ \/ InstanceState(1)' = InstanceState(1)
       \/ InstanceState(2)' = InstanceState(2)

\* C15: two parsers given the same configuration parse a docstring each,
\* their steps interleaved in any order: each ends with the result its
\* parse() gives alone, no step writes the configuration, and no step
\* writes the attributes, the frame or the data of both parsers.
C15_Independent == [](C15_AsAlone) /\ [][C15_Frame]_vars

\* the second parser has started its parse() after the first and has ended
\* it with sections parsed, while the first is in the middle of its scan with
\* an indent locked
C15_Witness ==
    /\ active = 2
    /\ pc = "idle"
    /\ calls = 1
    /\ outcome = "returned"
    /\ Len(heap[data]) > 0
    /\ data > peer.data
    /\ peer.pc = "extract"
    /\ peer.ln > 0
    /\ peer._indent >= ConfigIndent

(***************************************************************************)
(* C16                                                                     *)
(***************************************************************************)
\* in the first parse(), the pending section has been opened by an indent
\* drop: it starts with a line that is no header and lines before it have
\* gone to earlier sections
DropOpened ==
    /\ pc = "extract"
    /\ calls = 1
    /\ _section # <<>>
    /\ ~HeaderLine(_section[1])
    /\ Len(_section) < ln

\* C16, as stated: a section that an indent drop has opened starts with the
\* threshold 0, and the pass over its first indented line locks the
\* threshold to the indent of that line.
C16_LocksAfterDrop ==
    [][(/\ DropOpened
        /\ ln < Len(lines)
        /\ \A i \in 1..Len(_section) : Leading(_section[i]) < ConfigIndent
        /\ Leading(lines[ln + 1]) >= ConfigIndent
        /\ ~HeaderLine(lines[ln + 1])) =>
            /\ _indent = 0
            /\ _indent' = Leading(lines[ln + 1])]_vars

(***************************************************************************)
(* C17                                                                     *)
(***************************************************************************)
\* parse_section has gone through the block in lines
BlockDone == pc = "section" /\ _linenum >= Len(lines)

\* the lines of the description of the k-th field of the block
DescriptionLines(k) == Split(args[k].description, "\n")

\* the place of the field line of the k-th field of the block
FieldStart(k) == Nth(FieldStarts(lines, BlockStart), k)

\* the number of non-empty lines after the field line of the k-th field up
\* to the last line the field consumes
NonEmptyConsumed(k) ==
    Cardinality({i \in (FieldStart(k) + 1)..ContinuationEnd(lines, FieldStart(k)) :
                    LineAt(lines, i) # <<>>})

\* C17, as stated: the description of a field holds the rest of its field
\* line and the non-empty lines the field consumes; the empty lines between
\* them are consumed and not appended.
C17_BlanksNotAppended ==
    BlockDone =>
        \A k \in 1..Len(args) :
            /\ Len(DescriptionLines(k)) = 1 + NonEmptyConsumed(k)
            /\ \A i \in 2..Len(DescriptionLines(k)) :
                  DescriptionLines(k)[i] # <<>>

\* C17, amended: the description of a field holds the rest of its field
\* line and then every line the field consumes, the empty ones among them
\* as empty lines, in the order of the block.
C17_BlanksAppended ==
    BlockDone =>
        \A k \in 1..Len(args) :
            LET n == FieldStart(k)
                d == DescriptionLines(k)
            IN  /\ Len(d) = ContinuationEnd(lines, n) - n + 1
                /\ \A i \in 2..Len(d) : d[i] = LineAt(lines, n + i - 1)

\* a block has been gone through in which an empty line stands between a
\* field line and its indented continuation, and the description of the
\* field has that empty line as its second line
C17_Witness ==
    /\ BlockDone
    /\ \E k \in 1..Len(args) :
          /\ ContinuationEnd(lines, FieldStart(k)) >= FieldStart(k) + 2
          /\ LineAt(lines, FieldStart(k) + 1) = <<>>
          /\ Len(DescriptionLines(k)) >= 3
          /\ DescriptionLines(k)[2] = <<>>

(***************************************************************************)
(* C18                                                                     *)
(***************************************************************************)
\* the scan is at a header line
AtHeader == pc = "extract" /\ ln < Len(lines) /\ HeaderLine(lines[ln + 1])

\* C18, as stated: the pass of the scan over a header line raises
\* SyntaxError when the next non-empty line is not indented more deeply than
\* the threshold in force, or there is none.
C18_RelativeCheck ==
    [][(/\ AtHeader
        /\ \/ NonEmptyAfter(lines, ln + 1) = {}
           \/ Leading(lines[Min(NonEmptyAfter(lines, ln + 1))]) <= _indent) =>
            outcome' = "SyntaxError"]_vars

\* C18, amended: the pass of the scan over a header line raises SyntaxError
\* exactly when the next non-empty line has fewer leading white-space
\* characters than the indent unit, or there is none, whatever the threshold
\* in force and the indent of the header line are.
C18_AbsoluteCheck ==
    [][AtHeader =>
          (outcome' = "SyntaxError" <=> ~IndentedBodyAfter(lines, ln + 1))]_vars

\* the first parse() has returned for a docstring in which a header line
\* with the indent unit of leading white space, met with that threshold in
\* force, is followed at once by a line of the same indent
C18_Witness ==
    /\ FirstParseDone
    /\ outcome = "returned"
    /\ \E i \in 2..(Len(DocLines) - 1) :
          /\ HeaderLine(DocLines[i])
          /\ Leading(DocLines[1]) = Leading(DocLines[i])
          /\ Leading(DocLines[i]) >= ConfigIndent
          /\ DocLines[i + 1] # <<>>
          /\ Leading(DocLines[i + 1]) = Leading(DocLines[i])

(***************************************************************************)
(* C19                                                                     *)
(***************************************************************************)
\* the characters of s that are not white space, in order
NonSpace(s) == LET Kept(c) == ~IsSpace(c) IN SelectSeq(s, Kept)

\* the blocks 1..k of the segmenter, one after the other
RECURSIVE BlocksText(_)
BlocksText(k) == IF k = 0 THEN <<>> ELSE BlocksText(k - 1) \o _sections[k]

\* a pass of the scan that does not raise appends to the pending section
\* the line less a prefix of white space, which is as long as the threshold
\* in force after the pass (or the whole line when that is shorter); the
\* threshold is 0 and the line is whole when the line is a header or has
\* closed the pending section
C19_PrefixOnly ==
    (pc = "extract" /\ ln < Len(lines) /\ pc' = "extract") =>
        LET line == lines[ln + 1]
            n == Min({_indent', Len(line)})
        IN  /\ Len(_section') > 0
            /\ _section'[Len(_section')] = SubSeq(line, n + 1, Len(line))
            /\ \A i \in 1..n : IsSpace(line[i])
            /\ HeaderLine(line) => n = 0
            /\ _sections' # _sections => n = 0
            /\ \/ _section' = Append(_section, _section'[Len(_section')])
               \/ _section' = <<line>>

\* when the first parse() has returned, the blocks hold every character of
\* the docstring that is not white space, in order
C19_AllContentKept ==
    (FirstParseDone /\ outcome = "returned") =>
        NonSpace(BlocksText(Len(_sections))) = NonSpace(docstring)

\* C19: segmentation never removes content: every pass of the scan appends
\* the line less a white-space prefix of the length of the threshold in
\* force (0 for header lines and for lines that close the pending section by
\* an indent drop), and every character of the docstring that is not white
\* space is, in order, in the blocks handed to the sections.
C19_ContentKept == [](C19_AllContentKept) /\ [][C19_PrefixOnly]_vars

\* the first parse() has returned for a docstring of which one line has
\* been stripped of a locked indent and a later line has closed the section
\* by an indent drop
C19_Witness ==
    /\ FirstParseDone
    /\ outcome = "returned"
    /\ IndentDrop
    /\ Len(_sections) >= 2
    /\ Len(BlocksText(Len(_sections))) + Len(_sections) - 1 < Len(docstring)
    /\ NonSpace(docstring) # <<>>

(***************************************************************************)
(* C20                                                                     *)
(***************************************************************************)
\* the places of the block that the k-th field takes: its field line and
\* the lines up to its last continuation line
FieldPlaces(k) == FieldStart(k)..ContinuationEnd(lines, FieldStart(k))

\* the places of the block that no field takes, the skipped header aside
TextPlaces ==
    (BlockStart..(Len(lines) - 1)) \ UNION {FieldPlaces(k) : k \in 1..Len(args)}

RECURSIVE DescriptionLineCount(_)
DescriptionLineCount(k) ==
    IF k = 0 THEN 0
    ELSE Len(DescriptionLines(k)) + DescriptionLineCount(k - 1)

\* every pass of the loop of parse_section moves the cursor forward, and
\* not beyond the end of the block
C20_CursorForward ==
    (pc = "section" /\ pc' = "section") =>
        /\ _linenum' > _linenum
        /\ _linenum' <= Len(lines')

\* when parse_section has gone through a block, the cursor is at its end,
\* the fields take disjoint runs of lines, the text lines are the other
\* lines in order, and the text lines and the description lines are
\* together as many as the block has lines after the skipped header
C20_Placed ==
    /\ pc = "section" => _linenum <= Len(lines)
    /\ BlockDone =>
          /\ \A j, k \in 1..Len(args) :
                j # k => FieldPlaces(j) \cap FieldPlaces(k) = {}
          /\ \A k \in 1..Len(args) :
                /\ FieldPlaces(k) \subseteq BlockStart..(Len(lines) - 1)
                /\ Len(DescriptionLines(k)) = Cardinality(FieldPlaces(k))
          /\ Len(text) = Cardinality(TextPlaces)
          /\ \A i \in 1..Len(text) : text[i] = LineAt(lines, Nth(TextPlaces, i))
          /\ Len(text) + DescriptionLineCount(Len(args))
                = Len(lines) - BlockStart

\* C20: parse_section partitions the lines of the block: the cursor only
\* moves forward and never beyond the last line, and when it returns every
\* line but a skipped header line is once a text line or once a line of the
\* description of one field, so that text lines and description lines are
\* together as many as the block has lines less the skipped header.
C20_Partition == [](C20_Placed) /\ [][C20_CursorForward]_vars

\* a block with a header has been gone through, with a text line and a
\* field whose description has a continuation line
C20_Witness ==
    /\ BlockDone
    /\ BlockStart = 1
    /\ Len(text) > 0
    /\ \E k \in 1..Len(args) : Cardinality(FieldPlaces(k)) > 1

=============================================================================
